---- MODULE Spec2Model ----
(***************************************************************************)
(* Model of the StoryGenius read-along word aligner:                       *)
(*   client/src/lib/word-highlighting.ts      (normalizeText,              *)
(*       stringSimilarity, findBestMatch, highlightWord)                   *)
(*   client/src/hooks/use-speech-recognition.tsx (useSpeechRecognition)    *)
(*   client/src/components/ReadAlong.tsx      (highlight effect, toggle)   *)
(*   client/src/components/BookPage.tsx       (page-change effect)         *)
(*   client/src/pages/book/[id].tsx           (BookReader page navigation) *)
(*                                                                         *)
(* A JavaScript string is modelled as a sequence of one-character strings, *)
(* so that every string operation of the source (toLowerCase, replace,     *)
(* trim, split, includes, indexing) is computed character by character.    *)
(***************************************************************************)
EXTENDS Integers, Sequences, FiniteSets, TLC

(***************************************************************************)
(* JavaScript string primitives                                            *)
(***************************************************************************)

\* The value null / undefined where the source accepts it for a string.
Null == <<"<null>">>

\* The value of a property a JavaScript object does not have, and of a
\* missing argument.
Undefined == <<"<undefined>">>

\* A value that is neither a string nor an array nor falsy: an object.
AnObject == <<"<object>">>

\* JavaScript truthiness of a string-or-null value: !text holds for null,
\* undefined and the empty string (and, for an array, never: the empty
\* array is told by its length).
IsFalsy(text) == text = Null \/ text = Undefined \/ text = <<>>

\* typeof v === 'string'
IsString(v) == v \notin {Null, Undefined, AnObject}

\* The same three values where an array of words is expected. An array is a
\* sequence of strings, so these are one-element sequences whose element is
\* no string of characters.
NullWords == << <<"<null>", "<array>">> >>
UndefinedWords == << <<"<undefined>", "<array>">> >>
ObjectWords == << <<"<object>", "<array>">> >>

\* !words, for a value given as the array of words
IsFalsyWords(words) == words \in {NullWords, UndefinedWords}

\* Array.isArray(words)
IsArray(words) == words \notin {NullWords, UndefinedWords, ObjectWords}

\* The character class of the first replace() of normalizeText.
\* (the double quote, backtick and backslash are written by name)
PunctuationChars ==
    {".", ",", "!", "?", ";", ":", "dquote", "'", "(", ")", "[", "]", "{", "}",
     "*", "&", "^", "%", "$", "#", "@", "~", "backtick", "|", "backslash", "/",
     "+", "-", "_", "=", "<", ">"}

\* The characters matched by \s (those the model's inputs use).
\* (tab and newline are written by name)
WhitespaceChars == {" ", "tab", "newline"}

UpperLetters ==
    <<"A", "B", "C", "D", "E", "F", "G", "H", "I", "J", "K", "L", "M",
      "N", "O", "P", "Q", "R", "S", "T", "U", "V", "W", "X", "Y", "Z">>

LowerLetters ==
    <<"a", "b", "c", "d", "e", "f", "g", "h", "i", "j", "k", "l", "m",
      "n", "o", "p", "q", "r", "s", "t", "u", "v", "w", "x", "y", "z">>

\* The lower-case letter of every upper-case letter.
LowerOf ==
    [c \in {UpperLetters[i] : i \in DOMAIN UpperLetters} |->
        LowerLetters[CHOOSE i \in DOMAIN UpperLetters : UpperLetters[i] = c]]

toLowerCaseChar(c) == IF c \in DOMAIN LowerOf THEN LowerOf[c] ELSE c

\* String.prototype.toLowerCase
toLowerCase(s) == [i \in 1..Len(s) |-> toLowerCaseChar(s[i])]

IsWs(c) == c \in WhitespaceChars

\* s.replace(/[.,!?;:"'()\[\]{}*&^%$#@~`|\\\/+\-_=<>]/g, '')
StripPunctuation(s) == SelectSeq(s, LAMBDA c : c \notin PunctuationChars)

\* s.replace(/\s+/g, ' '): every maximal run of whitespace becomes one space.
RECURSIVE CollapseWhitespace(_)
CollapseWhitespace(s) ==
    IF s = <<>> THEN <<>>
    ELSE IF IsWs(Head(s))
         THEN IF Len(s) > 1 /\ IsWs(s[2])
              THEN CollapseWhitespace(Tail(s))
              ELSE <<" ">> \o CollapseWhitespace(Tail(s))
         ELSE <<Head(s)>> \o CollapseWhitespace(Tail(s))

RECURSIVE TrimStart(_)
TrimStart(s) ==
    IF s # <<>> /\ IsWs(Head(s)) THEN TrimStart(Tail(s)) ELSE s

RECURSIVE TrimEnd(_)
TrimEnd(s) ==
    IF s # <<>> /\ IsWs(s[Len(s)]) THEN TrimEnd(SubSeq(s, 1, Len(s) - 1)) ELSE s

\* String.prototype.trim
Trim(s) == TrimEnd(TrimStart(s))

\* s.split(/\s+/): the pieces between maximal whitespace runs.  As in
\* JavaScript a leading (trailing) run yields an empty first (last) piece,
\* and the empty string splits into one empty piece.
RECURSIVE SplitFrom(_, _)
SplitFrom(s, cur) ==
    IF s = <<>> THEN <<cur>>
    ELSE IF IsWs(Head(s))
         THEN <<cur>> \o SplitFrom(TrimStart(s), <<>>)
         ELSE SplitFrom(Tail(s), Append(cur, Head(s)))

SplitWhitespace(s) == SplitFrom(s, <<>>)

\* .filter(w => w.length > 0)
NonEmptyOnly(ws) == SelectSeq(ws, LAMBDA w : Len(w) > 0)

\* String.prototype.includes
Includes(s, sub) ==
    \E i \in 0..(Len(s) - Len(sub)) : SubSeq(s, i + 1, i + Len(sub)) = sub

\* Template / + concatenation of strings with single spaces between them.
RECURSIVE JoinWithSpace(_)
JoinWithSpace(ws) ==
    IF ws = <<>> THEN <<>>
    ELSE IF Len(ws) = 1 THEN ws[1]
    ELSE ws[1] \o <<" ">> \o JoinWithSpace(Tail(ws))

Max(a, b) == IF a >= b THEN a ELSE b
Min(a, b) == IF a <= b THEN a ELSE b

(***************************************************************************)
(* word-highlighting.ts                                                    *)
(***************************************************************************)

\* A mutant of normalizeText that collapses whitespace before it strips
\* the punctuation.
normalizeText_CollapseFirst(text) ==
    IF IsFalsy(text) THEN <<>>
    ELSE Trim(StripPunctuation(CollapseWhitespace(toLowerCase(text))))

\* normalizeText. A truthy value that is not a string has no toLowerCase:
\* the call raises a TypeError inside the try block, and the catch block
\* returns ''.
normalizeText(text) ==
    IF IsFalsy(text) THEN <<>>
    ELSE IF ~IsString(text) THEN <<>>
    ELSE Trim(CollapseWhitespace(StripPunctuation(toLowerCase(text))))

\* One row of the Levenshtein table: track[j][0..str1.length], built from
\* the row above (prev) for the character c2 = str2[j-1].  Rows are
\* sequences, column i of the source is element i+1.
RECURSIVE FillRow(_, _, _, _)
FillRow(row, prev, str1, c2) ==
    LET i == Len(row) IN
    IF i > Len(str1) THEN row
    ELSE LET indicator == IF str1[i] = c2 THEN 0 ELSE 1
             cell == Min(Min(row[i] + 1,              \* deletion
                             prev[i + 1] + 1),        \* insertion
                         prev[i] + indicator)         \* substitution
         IN FillRow(Append(row, cell), prev, str1, c2)

\* A mutant of the table step that charges nothing for a deletion.
TrackRow_FreeDeletion(prev, str1, c2, j) ==
    LET RECURSIVE Fill(_)
        Fill(row) ==
            LET i == Len(row) IN
            IF i > Len(str1) THEN row
            ELSE LET indicator == IF str1[i] = c2 THEN 0 ELSE 1
                 IN Fill(Append(row, Min(Min(row[i], prev[i + 1] + 1),
                                         prev[i] + indicator)))
    IN Fill(<<j>>)

\* track[j] for j >= 1: track[j][0] = j, then the inner loop over i.
TrackRow(prev, str1, c2, j) == FillRow(<<j>>, prev, str1, c2)

\* track[str2.length] : the outer loop over j, starting from track[0][i] = i.
RECURSIVE TrackRows(_, _, _, _)
TrackRows(prev, str1, str2, j) ==
    IF j > Len(str2) THEN prev
    ELSE TrackRows(TrackRow(prev, str1, str2[j], j), str1, str2, j + 1)

levenshteinDistance(str1, str2) ==
    TrackRows([i \in 1..(Len(str1) + 1) |-> i - 1], str1, str2, 1)[Len(str1) + 1]

\* stringSimilarity returns the number 1 - distance / maxLength.  The model
\* keeps it exact, as the fraction num / den with den > 0.
stringSimilarity(str1, str2) ==
    IF IsFalsy(str1) /\ IsFalsy(str2) THEN [num |-> 1, den |-> 1]
    ELSE IF IsFalsy(str1) \/ IsFalsy(str2) THEN [num |-> 0, den |-> 1]
    ELSE LET maxLength == Max(Len(str1), Len(str2))
             distance  == levenshteinDistance(str1, str2)
         IN [num |-> maxLength - distance, den |-> maxLength]

\* Comparison of two similarity values, a > b.
SimGreater(a, b) == a.num * b.den > b.num * a.den

\* The literal 0.7 of findBestMatch, "Minimum threshold for fuzzy matching".
FuzzyThreshold == [num |-> 7, den |-> 10]

\* typeof w === 'string' && w.trim().length > 0
IsValidWord(w) == IsString(w) /\ Len(Trim(w)) > 0

\* The loop of findBestMatch over validWords from index i (1-based here),
\* carrying bestPartialMatchIndex, bestFuzzyMatchIndex (0-based as in the
\* source, -1 for none) and bestSimilarityScore.  An exact match breaks out
\* of the loop and is returned at once: the later returns prefer it anyway.
RECURSIVE MatchLoop(_, _, _, _, _, _)
MatchLoop(validWords, normalizedWord, i, partialIdx, fuzzyIdx, bestScore) ==
    IF i > Len(validWords)
    THEN IF partialIdx # -1 THEN partialIdx
         ELSE IF fuzzyIdx # -1 THEN fuzzyIdx
         ELSE -1
    ELSE LET normalizedTarget == normalizeText(validWords[i])
             isSubstring == \/ Includes(normalizedTarget, normalizedWord)
                            \/ Includes(normalizedWord, normalizedTarget)
             similarityScore == stringSimilarity(normalizedTarget, normalizedWord)
             better == SimGreater(similarityScore, bestScore)
         IN IF normalizedTarget = normalizedWord
            THEN i - 1
            ELSE MatchLoop(validWords, normalizedWord, i + 1,
                           IF isSubstring /\ partialIdx = -1 THEN i - 1 ELSE partialIdx,
                           IF better THEN i - 1 ELSE fuzzyIdx,
                           IF better THEN similarityScore ELSE bestScore)

\* A mutant of findBestMatch whose loop starts at the second valid word.
findBestMatch_SkipFirst(words, word) ==
    IF Len(words) = 0 \/ IsFalsy(word) THEN -1
    ELSE LET normalizedWord == normalizeText(word)
         IN IF normalizedWord = <<>> THEN -1
            ELSE LET validWords == SelectSeq(words, IsValidWord)
                 IN IF Len(validWords) = 0 THEN -1
                    ELSE MatchLoop(validWords, normalizedWord, 2, -1, -1, FuzzyThreshold)

\* A mutant of findBestMatch without the guards on the spoken word.
findBestMatch_NoFalsyGuard(words, word) ==
    IF Len(words) = 0 THEN -1
    ELSE LET validWords == SelectSeq(words, IsValidWord)
         IN IF Len(validWords) = 0 THEN -1
            ELSE MatchLoop(validWords, normalizeText(word), 1, -1, -1, FuzzyThreshold)

findBestMatch(words, word) ==
    IF IsFalsyWords(words) \/ ~IsArray(words) \/ Len(words) = 0 \/ IsFalsy(word) THEN -1
    ELSE LET normalizedWord == normalizeText(word)
         IN IF normalizedWord = <<>> THEN -1
            ELSE LET validWords == SelectSeq(words, IsValidWord)
                 IN IF Len(validWords) = 0 THEN -1
                    ELSE MatchLoop(validWords, normalizedWord, 1, -1, -1, FuzzyThreshold)

highlightWord(words, recognizedWord) ==
    IF IsFalsyWords(words) \/ ~IsArray(words) \/ IsFalsy(recognizedWord) THEN -1
    ELSE findBestMatch(words, recognizedWord)

\* Comparison of two similarity values, a >= b.
SimAtLeast(a, b) == a.num * b.den >= b.num * a.den

\* A mutant of the scoring threshold: the 0.7 of live highlighting.
SIMILARITY_THRESHOLD_Live == [num |-> 7, den |-> 10]

\* The literal 0.8 of compareTexts.
SIMILARITY_THRESHOLD == [num |-> 8, den |-> 10]

\* actualWords.some(actualWord => normalizeText(actualWord) === normalizedExpected)
ExactMatch(normalizedExpected, actualWords) ==
    \E k \in 1..Len(actualWords) : normalizeText(actualWords[k]) = normalizedExpected

\* The for loop of compareTexts over actualWords from index k (1-based
\* here), carrying bestSimilarity; it breaks at the first word whose
\* similarity reaches the threshold.  Returns bestSimilarity and fuzzyMatched.
RECURSIVE FuzzyLoop(_, _, _, _)
FuzzyLoop(normalizedExpected, actualWords, k, bestSimilarity) ==
    IF k > Len(actualWords)
    THEN [bestSimilarity |-> bestSimilarity, fuzzyMatched |-> FALSE]
    ELSE LET normalizedActual == normalizeText(actualWords[k])
             similarity == stringSimilarity(normalizedExpected, normalizedActual)
             best == IF SimGreater(similarity, bestSimilarity)
                     THEN similarity ELSE bestSimilarity
         IN IF SimAtLeast(similarity, SIMILARITY_THRESHOLD)
            THEN [bestSimilarity |-> best, fuzzyMatched |-> TRUE]
            ELSE FuzzyLoop(normalizedExpected, actualWords, k + 1, best)

\* A mutant of CompareWord that compares the reference word as written,
\* without normalizing it.
CompareWord_RawExpected(word, actualWords) ==
    IF ExactMatch(word, actualWords)
    THEN [word |-> word, matched |-> TRUE, similarityScore |-> [num |-> 1, den |-> 1]]
    ELSE LET fuzzy == FuzzyLoop(word, actualWords, 1, [num |-> 0, den |-> 1])
         IN [word |-> word, matched |-> fuzzy.fuzzyMatched,
             similarityScore |-> fuzzy.bestSimilarity]

\* The callback of expectedWords.map: the result for one reference word.
CompareWord(word, actualWords) ==
    LET normalizedExpected == normalizeText(word)
    IN IF ExactMatch(normalizedExpected, actualWords)
       THEN [word |-> word, matched |-> TRUE, similarityScore |-> [num |-> 1, den |-> 1]]
       ELSE LET fuzzy == FuzzyLoop(normalizedExpected, actualWords, 1, [num |-> 0, den |-> 1])
            IN [word |-> word, matched |-> fuzzy.fuzzyMatched,
                similarityScore |-> fuzzy.bestSimilarity]

\* Reading the property name of the array compareTexts returns: an array
\* has its length, and no property that the code did not give it.
ArrayProperty(array, name) ==
    IF name = "length" THEN Len(array) ELSE Undefined

\* A mutant of compareTexts without the guard on the spoken text.
compareTexts_NoActualGuard(expected, actual) ==
    IF IsFalsy(expected) THEN <<>>
    ELSE IF ~IsString(expected) \/ actual \in {Null, Undefined, AnObject} THEN <<>>
    ELSE LET expectedWords == NonEmptyOnly(SplitWhitespace(expected))
             actualWords == NonEmptyOnly(SplitWhitespace(actual))
         IN [i \in 1..Len(expectedWords) |-> CompareWord(expectedWords[i], actualWords)]

\* compareTexts returns the array of per-word results, and nothing else.
\* A truthy value that is not a string has no split: the call raises a
\* TypeError inside the outer try block, and the catch block returns [].
compareTexts(expected, actual) ==
    IF IsFalsy(expected) \/ IsFalsy(actual) THEN <<>>
    ELSE IF ~IsString(expected) \/ ~IsString(actual) THEN <<>>
    ELSE LET expectedWords == NonEmptyOnly(SplitWhitespace(expected))
             actualWords == NonEmptyOnly(SplitWhitespace(actual))
         IN [i \in 1..Len(expectedWords) |-> CompareWord(expectedWords[i], actualWords)]


(***************************************************************************)
(* The reading session: BookReader ([id].tsx), ReadAlong, BookPage and the *)
(* useSpeechRecognition hook, driven by the user and by the browser's      *)
(* speech-recognition engine.                                              *)
(***************************************************************************)

\* ---- bounds of the model ----
\* longest accumulated transcript (in characters) the model lets grow
MaxTranscriptLen == 11
\* most results (from event.resultIndex on) one recognition event carries
MaxResults == 1

\* ---- data the session runs on ----
Zip == <<"z", "i", "p">>
And == <<"a", "n", "d">>
Zap == <<"z", "a", "p">>

\* The book: each page has the words array of the story generator
\* (WordWithPhonemes.text) and the optional calculated text field.
\* The last page is one for which the generator delivered no words.
Book ==
    << [words |-> << <<"Z", "i", "p">>, And, <<"Z", "a", "p", ".">> >>, text |-> Null],
       [words |-> << <<"g", "o">> >>, text |-> Null],
       [words |-> <<>>, text |-> Null] >>

\* Transcripts the engine delivers in an interim result.
InterimTexts == { Zip, JoinWithSpace(<<Zip, And>>) }

\* Transcripts the engine delivers in a final result.
FinalTexts == { JoinWithSpace(<<Zip, And, Zap>>) \o <<" ">> }

\* Confidence values of a result, in percent (0 stands for a missing one).
Confidences == {0, 90}

Results ==
    [isFinal : {FALSE}, transcript : InterimTexts, confidence : Confidences]
    \cup [isFinal : {TRUE}, transcript : FinalTexts, confidence : Confidences]

\* A recognition event: the results from event.resultIndex to the end.
RecognitionEvents ==
    UNION { [1..n -> Results] : n \in 1..MaxResults }

ErrorKinds == {"not-allowed", "service-not-allowed", "aborted", "network", "no-speech"}

\* Words a caller hands to BookPage's highlight function.
SpokenWords == {Zap}

NoError == "<null>"

VARIABLES
    \* useSpeechRecognition: useState
    transcript, interimTranscript, lastWordDetected, confidence, isListening,
    permissionStatus, error,
    \* useSpeechRecognition: refs and the engine behind recognitionRef
    recognition,        \* "none" (ref is null), "active", "stopping", "ended"
    restartCount,       \* restartCountRef.current
    handlerIsListening, \* the isListening the engine's handlers closed over
    onstartPending,     \* the engine has yet to fire onstart for a start()
    startListeningPc,   \* "idle", or "await" while startListening is suspended
    startIsListening,   \* the isListening the suspended startListening closed over
    \* the browser
    engineAvailable, micPermission,
    \* ReadAlong: useState
    currentWordIndex, currentText, confidenceLevel,
    \* BookReader: useState
    currentPageIndex, isReading,
    \* BookPage: useState
    bookPageWordIndex,
    \* history of the session, for the properties
    consecutiveEnds,    \* unexpected engine ends in a row
    restartCalls,       \* start() calls of the end handler since the engine was created
    stopRequested,      \* stopListening was called since the engine was created
    finalsHeard,        \* the trimmed final texts delivered since the last reset, in order
    submittedWord,      \* the word the highlight effect last handed to highlightWord
    \* a call of one library function on its own: which call and where it
    \* stands, its arguments and its result
    pc, argWords, argText, argOther, result

hookVars == <<transcript, interimTranscript, lastWordDetected, confidence,
              isListening, permissionStatus, error, recognition, restartCount,
              handlerIsListening, onstartPending, startListeningPc,
              startIsListening>>
envVars == <<engineAvailable, micPermission>>
uiVars == <<currentWordIndex, currentText, confidenceLevel, currentPageIndex,
            isReading, bookPageWordIndex>>
historyVars == <<consecutiveEnds, restartCalls, stopRequested, finalsHeard>>
effectVars == <<submittedWord>>
callVars == <<pc, argWords, argText, argOther, result>>
sessionVars == <<hookVars, envVars, uiVars, historyVars, effectVars>>
vars == <<sessionVars, callVars>>


\* ---- ReadAlong.tsx ----

\* pageWords of the highlight effect: the lower-cased words of the page,
\* from page.words or else from page.text.
ReadAlongPageWords(page) ==
    IF Len(page.words) > 0
    THEN NonEmptyOnly([i \in 1..Len(page.words) |-> toLowerCase(page.words[i])])
    ELSE IF ~IsFalsy(page.text)
         THEN NonEmptyOnly(SplitWhitespace(toLowerCase(page.text)))
         ELSE <<>>

\* s.toLowerCase().split(/\s+/).filter(w => w.length > 0), last element
LastLowerWord(s) ==
    LET ws == NonEmptyOnly(SplitWhitespace(toLowerCase(s)))
    IN IF Len(ws) > 0 THEN ws[Len(ws)] ELSE <<>>

\* The value the highlight effect leaves in currentWordIndex, given the
\* page's pageWords and the value cur the index had: the fallback chain lastWordDetected, interimTranscript,
\* transcript; setCurrentWordIndex only when a match is found.
HighlightEffectIndex(pageWords, t, it, lw, cur) ==
    LET Pick(word) == IF IsFalsy(word) THEN cur
                      ELSE LET index == highlightWord(pageWords, word)
                           IN IF index # -1 THEN index ELSE cur
    IN IF Len(pageWords) = 0 THEN cur
       ELSE IF ~IsFalsy(lw) /\ Trim(lw) # <<>> THEN Pick(lw)
       ELSE IF ~IsFalsy(it) /\ Trim(it) # <<>> THEN Pick(LastLowerWord(it))
       ELSE IF ~IsFalsy(t) /\ Trim(t) # <<>> THEN Pick(LastLowerWord(t))
       ELSE cur

\* A mutant of HighlightEffectWord that looks at the accumulated transcript
\* first.
HighlightEffectWord_TranscriptFirst(pageWords, t, it, lw) ==
    LET Last(s) == IF LastLowerWord(s) # <<>> THEN LastLowerWord(s) ELSE Null
    IN IF Len(pageWords) = 0 THEN Null
       ELSE IF ~IsFalsy(t) /\ Trim(t) # <<>> THEN Last(t)
       ELSE IF ~IsFalsy(lw) /\ Trim(lw) # <<>> THEN lw
       ELSE IF ~IsFalsy(it) /\ Trim(it) # <<>> THEN Last(it)
       ELSE Null

\* The word the highlight effect hands to highlightWord, Null when it
\* returns without calling it.
HighlightEffectWord(pageWords, t, it, lw) ==
    LET Last(s) == IF LastLowerWord(s) # <<>> THEN LastLowerWord(s) ELSE Null
    IN IF Len(pageWords) = 0 THEN Null
       ELSE IF ~IsFalsy(lw) /\ Trim(lw) # <<>> THEN lw
       ELSE IF ~IsFalsy(it) /\ Trim(it) # <<>> THEN Last(it)
       ELSE IF ~IsFalsy(t) /\ Trim(t) # <<>> THEN Last(t)
       ELSE Null

\* ---- BookPage.tsx ----

\* words of BookPage: page.words texts (or the pieces of page.text) that
\* are not blank.
BookPageWords(page) ==
    IF Len(page.words) > 0
    THEN SelectSeq(page.words, LAMBDA w : Len(Trim(w)) > 0)
    ELSE IF ~IsFalsy(page.text)
         THEN SelectSeq(SplitWhitespace(page.text), LAMBDA w : Len(Trim(w)) > 0)
         ELSE <<>>

\* pageWords of every page of the book.
BookPageWordsLower == [p \in DOMAIN Book |-> ReadAlongPageWords(Book[p])]

\* ---- the render that follows every handler ----

\* React re-renders after a handler's state updates and then runs the
\* effects whose dependencies changed: ReadAlong's highlight effect
\* (deps transcript, interimTranscript, lastWordDetected, confidence,
\* page.words, page.text) and BookPage's two reset effects (deps page;
\* isReading).  idx and text are the values the handler itself set for
\* currentWordIndex and currentText, bp the one for BookPage's index.
Render(idx, text, bp) ==
    LET changed == <<transcript', interimTranscript', lastWordDetected',
                     confidence', currentPageIndex'>>
                   # <<transcript, interimTranscript, lastWordDetected,
                       confidence, currentPageIndex>>
    IN /\ currentWordIndex' =
            IF changed
            THEN HighlightEffectIndex(BookPageWordsLower[currentPageIndex' + 1], transcript',
                                      interimTranscript', lastWordDetected', idx)
            ELSE idx
       /\ submittedWord' =
            IF changed
            THEN HighlightEffectWord(BookPageWordsLower[currentPageIndex' + 1], transcript',
                                     interimTranscript', lastWordDetected')
            ELSE submittedWord
       /\ currentText' =
            IF changed /\ ~IsFalsy(transcript') /\ Trim(transcript') # <<>>
            THEN transcript' ELSE text
       /\ confidenceLevel' =
            IF changed /\ confidence' > 0 THEN confidence' ELSE confidenceLevel
       /\ bookPageWordIndex' =
            IF \/ currentPageIndex' # currentPageIndex
               \/ (isReading' # isReading /\ ~isReading')
            THEN -1 ELSE bp

\* ---- use-speech-recognition.tsx ----

maxRestartAttempts == 3

\* getSpeechRecognition: window.SpeechRecognition || ...prefixed names; in a
\* browser without any of them the || chain yields undefined.
getSpeechRecognition ==
    IF engineAvailable THEN "SpeechRecognition" ELSE "undefined"

\* isSpeechRecognitionSupported: getSpeechRecognition() !== null
isSpeechRecognitionSupported == getSpeechRecognition # "null"

\* A mutant of extractLastWord that returns the first word.
extractLastWord_FirstWord(text) ==
    IF IsFalsy(text) THEN <<>>
    ELSE LET words == SplitWhitespace(Trim(text))
         IN IF Len(words) > 0 THEN toLowerCase(words[1]) ELSE <<>>

extractLastWord(text) ==
    IF IsFalsy(text) THEN <<>>
    ELSE LET words == SplitWhitespace(Trim(text))
         IN IF Len(words) > 0 THEN toLowerCase(words[Len(words)]) ELSE <<>>

\* onresult's loop: ' ' + transcript of every result that is final (or
\* every one that is not), concatenated.
RECURSIVE ConcatSegments(_, _)
ConcatSegments(results, final) ==
    IF results = <<>> THEN <<>>
    ELSE (IF Head(results).isFinal = final
          THEN <<" ">> \o Head(results).transcript ELSE <<>>)
         \o ConcatSegments(Tail(results), final)

\* A mutant of AppendFinal that replaces the transcript by the final text.
AppendFinal_Replace(prevTranscript, finalTranscript) == Trim(finalTranscript)

\* The transcript after a final result.
AppendFinal(prevTranscript, finalTranscript) ==
    IF ~IsFalsy(prevTranscript)
    THEN prevTranscript \o <<" ">> \o Trim(finalTranscript)
    ELSE Trim(finalTranscript)

Saturate(n) == Min(n, maxRestartAttempts + 1)

\* stopListening: recognition.stop() on the instance, if any; then the
\* finally block.
StopListening ==
    /\ recognition' = IF recognition = "active" THEN "stopping" ELSE recognition
    /\ isListening' = FALSE
    /\ interimTranscript' = <<>>
    /\ restartCount' = 0
    /\ stopRequested' = TRUE
    /\ consecutiveEnds' = 0


\* The session after the components mounted, in a browser where a speech
\* engine is available or not (avail) and the microphone permission is mic:
\* the hook's mount effect has run checkPermission once.
Mounted(avail, mic) ==
    /\ transcript = <<>> /\ interimTranscript = <<>> /\ lastWordDetected = <<>>
    /\ confidence = 0 /\ isListening = FALSE /\ error = NoError
    /\ engineAvailable = avail
    /\ micPermission = mic
    /\ permissionStatus = mic
    /\ recognition = "none" /\ restartCount = 0
    /\ handlerIsListening = FALSE /\ onstartPending = FALSE
    /\ startListeningPc = "idle" /\ startIsListening = FALSE
    /\ currentWordIndex = -1 /\ currentText = <<>> /\ confidenceLevel = 0
    /\ currentPageIndex = 0 /\ isReading = FALSE
    /\ bookPageWordIndex = -1
    /\ consecutiveEnds = 0 /\ restartCalls = 0 /\ stopRequested = FALSE
    /\ finalsHeard = <<>> /\ submittedWord = Null

Init ==
    /\ \E avail \in BOOLEAN, mic \in {"granted", "prompt", "denied"} : Mounted(avail, mic)
    /\ pc = "session" /\ argWords = <<>> /\ argText = <<>> /\ argOther = <<>>
    /\ result = <<>>

\* toggleReading, isReading true: "Stop Reading".
ToggleReadingStop ==
    /\ pc = "session"
    /\ isReading
    /\ isReading' = FALSE
    /\ IF isSpeechRecognitionSupported
       THEN StopListening
       ELSE UNCHANGED <<recognition, isListening, interimTranscript, restartCount,
                        stopRequested, consecutiveEnds>>
    /\ UNCHANGED <<transcript, lastWordDetected, confidence, permissionStatus, error,
                   handlerIsListening, onstartPending, startListeningPc,
                   startIsListening, envVars, currentPageIndex, restartCalls, finalsHeard,
                   callVars>>
    /\ Render(-1, currentText, bookPageWordIndex)

\* toggleReading, isReading false: "Start Reading", up to the first await
\* of startListening (at most one startListening is suspended at a time).
ToggleReadingStart ==
    /\ pc = "session"
    /\ ~isReading
    /\ startListeningPc = "idle"
    /\ isReading' = TRUE
    /\ IF ~isSpeechRecognitionSupported
       THEN UNCHANGED <<error, startListeningPc, startIsListening, stopRequested>>
       ELSE IF getSpeechRecognition = "undefined"
            THEN /\ error' = "Speech recognition not supported in this browser"
                 /\ UNCHANGED <<startListeningPc, startIsListening, stopRequested>>
            ELSE /\ startListeningPc' = "await"
                 /\ startIsListening' = isListening
                 /\ stopRequested' = FALSE
                 /\ UNCHANGED error
    /\ UNCHANGED <<transcript, interimTranscript, lastWordDetected, confidence,
                   isListening, permissionStatus, recognition, restartCount,
                   handlerIsListening, onstartPending, envVars, currentPageIndex,
                   consecutiveEnds, restartCalls, finalsHeard, callVars>>
    /\ Render(currentWordIndex, <<>>, bookPageWordIndex)

\* startListening from its first await to its end: checkPermission,
\* requestPermission when the state is 'prompt' (answer is what the user
\* answers to the browser's prompt), then resetTranscript,
\* cleanupRecognition, the new instance with its handlers, and start().
StartListeningResume ==
    /\ pc = "session"
    /\ startListeningPc = "await"
    /\ startListeningPc' = "idle"
    /\ \E answer \in {"granted", "denied"} :
        LET currentPermission == micPermission
            asked == currentPermission = "prompt" /\ permissionStatus # "granted"
            updatedPermission == IF asked THEN answer ELSE micPermission
        IN /\ micPermission' = updatedPermission
           /\ permissionStatus' = updatedPermission
           /\ IF \/ currentPermission = "granted"
                 \/ (currentPermission = "prompt" /\ updatedPermission = "granted")
              THEN /\ error' = NoError
                   /\ transcript' = <<>> /\ interimTranscript' = <<>>
                   /\ lastWordDetected' = <<>> /\ confidence' = 0
                   /\ recognition' = "active"
                   /\ restartCount' = 0
                   /\ handlerIsListening' = startIsListening
                   /\ onstartPending' = TRUE
                   /\ isListening' = TRUE
                   /\ consecutiveEnds' = 0 /\ restartCalls' = 0
                   /\ finalsHeard' = <<>>
                   /\ stopRequested' = FALSE
              ELSE /\ error' =
                        IF currentPermission = "denied"
                        THEN "Microphone access denied. Please allow access in your browser settings."
                        ELSE IF asked
                        THEN "Microphone permission denied. Please allow access in your browser settings."
                        ELSE error
                   /\ UNCHANGED <<transcript, interimTranscript, lastWordDetected,
                                  confidence, recognition, restartCount,
                                  handlerIsListening, onstartPending, isListening,
                                  consecutiveEnds, restartCalls, stopRequested,
                                  finalsHeard>>
    /\ UNCHANGED <<startIsListening, engineAvailable, currentPageIndex, isReading,
                   callVars>>
    /\ Render(currentWordIndex, currentText, bookPageWordIndex)

\* recognition.onstart
OnStart ==
    /\ pc = "session"
    /\ recognition \in {"active", "stopping"}
    /\ onstartPending
    /\ onstartPending' = FALSE
    /\ isListening' = TRUE
    /\ UNCHANGED <<transcript, interimTranscript, lastWordDetected, confidence,
                   permissionStatus, error, recognition, restartCount,
                   handlerIsListening, startListeningPc, startIsListening, envVars,
                   currentPageIndex, isReading, historyVars, callVars>>
    /\ Render(currentWordIndex, currentText, bookPageWordIndex)

\* recognition.onresult for the event whose results from resultIndex on
\* are ev.  The engine delivers events until it has ended, also after
\* stop() was called on it.
OnResult(ev) ==
    /\ pc = "session"
    /\ recognition \in {"active", "stopping"}
    /\ LET finalTranscript == ConcatSegments(ev, TRUE)
           currentInterimTranscript == ConcatSegments(ev, FALSE)
           currentConfidence == ev[Len(ev)].confidence
           cleanedInterim == Trim(currentInterimTranscript)
           lastWord == extractLastWord(cleanedInterim)
       IN /\ Len(AppendFinal(transcript, finalTranscript)) <= MaxTranscriptLen
          /\ confidence' = IF currentConfidence > 0 THEN currentConfidence ELSE confidence
          /\ lastWordDetected' =
                IF ~IsFalsy(currentInterimTranscript) /\ ~IsFalsy(lastWord)
                THEN lastWord ELSE lastWordDetected
          /\ transcript' =
                IF ~IsFalsy(finalTranscript)
                THEN AppendFinal(transcript, finalTranscript) ELSE transcript
          /\ interimTranscript' =
                IF ~IsFalsy(finalTranscript) THEN <<>>
                ELSE IF ~IsFalsy(currentInterimTranscript) THEN cleanedInterim
                ELSE interimTranscript
          /\ finalsHeard' =
                IF ~IsFalsy(finalTranscript)
                THEN Append(finalsHeard, Trim(finalTranscript)) ELSE finalsHeard
    /\ consecutiveEnds' = 0
    /\ UNCHANGED <<isListening, permissionStatus, error, recognition, restartCount,
                   handlerIsListening, onstartPending, startListeningPc,
                   startIsListening, envVars, currentPageIndex, isReading,
                   restartCalls, stopRequested, callVars>>
    /\ Render(currentWordIndex, currentText, bookPageWordIndex)

\* A mutant of onerror that stops listening on every kind of error.
OnError_StopOnAny(kind) ==
    /\ pc = "session"
    /\ recognition \in {"active", "stopping"}
    /\ error' = kind
    /\ StopListening
    /\ UNCHANGED <<transcript, lastWordDetected, confidence, permissionStatus,
                   handlerIsListening, onstartPending, startListeningPc,
                   startIsListening, envVars, currentPageIndex, isReading,
                   restartCalls, finalsHeard, callVars>>
    /\ Render(currentWordIndex, currentText, bookPageWordIndex)

\* recognition.onerror
OnError(kind) ==
    /\ pc = "session"
    /\ recognition \in {"active", "stopping"}
    /\ error' = kind
    /\ IF kind \in {"not-allowed", "service-not-allowed"}
       THEN StopListening
       ELSE /\ consecutiveEnds' = 0
            /\ UNCHANGED <<recognition, isListening, interimTranscript, restartCount,
                           stopRequested>>
    /\ UNCHANGED <<transcript, lastWordDetected, confidence, permissionStatus,
                   handlerIsListening, onstartPending, startListeningPc,
                   startIsListening, envVars, currentPageIndex, isReading,
                   restartCalls, finalsHeard, callVars>>
    /\ Render(currentWordIndex, currentText, bookPageWordIndex)

\* recognition.onend.  isListening in the handler is the constant its
\* closure captured when startListening ran, not the hook's current state.
OnEndHandler ==
    /\ pc = "session"
    /\ IF handlerIsListening
       THEN IF restartCount < maxRestartAttempts
            THEN /\ restartCount' = restartCount + 1
                 /\ recognition' = "active"
                 /\ onstartPending' = TRUE
                 /\ restartCalls' = Saturate(restartCalls + 1)
                 /\ UNCHANGED <<isListening, error>>
            ELSE /\ isListening' = FALSE
                 /\ error' = "Speech recognition stopped unexpectedly. Please try again."
                 /\ recognition' = "ended"
                 /\ onstartPending' = FALSE
                 /\ UNCHANGED <<restartCount, restartCalls>>
       ELSE /\ isListening' = FALSE
            /\ recognition' = "ended"
            /\ onstartPending' = FALSE
            /\ UNCHANGED <<restartCount, restartCalls, error>>
    /\ consecutiveEnds' = IF recognition = "active" /\ ~stopRequested
                          THEN Saturate(consecutiveEnds + 1) ELSE 0
    /\ UNCHANGED <<transcript, interimTranscript, lastWordDetected, confidence,
                   permissionStatus, handlerIsListening, startListeningPc,
                   startIsListening, envVars, currentPageIndex, isReading,
                   stopRequested, finalsHeard, callVars>>
    /\ Render(currentWordIndex, currentText, bookPageWordIndex)

\* The engine ends after stop() was called on it.
OnEndAfterStop ==
    /\ recognition = "stopping"
    /\ OnEndHandler

\* The engine ends on its own (silence, a network failure, the browser's
\* session limit).
OnEndUnexpected ==
    /\ recognition = "active"
    /\ OnEndHandler

\* BookReader.goToPreviousPage
GoToPreviousPage ==
    /\ pc = "session"
    /\ currentPageIndex > 0
    /\ currentPageIndex' = currentPageIndex - 1
    /\ isReading' = FALSE
    /\ UNCHANGED <<hookVars, envVars, historyVars, callVars>>
    /\ Render(currentWordIndex, currentText, bookPageWordIndex)

\* BookReader.goToNextPage
GoToNextPage ==
    /\ pc = "session"
    /\ currentPageIndex < Len(Book) - 1
    /\ currentPageIndex' = currentPageIndex + 1
    /\ isReading' = FALSE
    /\ UNCHANGED <<hookVars, envVars, historyVars, callVars>>
    /\ Render(currentWordIndex, currentText, bookPageWordIndex)

\* BookPage.highlightRecognizedWord, as exposed through the ref and window.
HighlightRecognizedWord(word) ==
    /\ pc = "session"
    /\ LET words == BookPageWords(Book[currentPageIndex + 1])
           index == IF IsFalsy(word) \/ Len(words) = 0 THEN -1
                    ELSE highlightWord(words, word)
       IN /\ index >= 0
          /\ UNCHANGED <<hookVars, envVars, currentPageIndex, isReading,
                         historyVars, callVars>>
          /\ Render(currentWordIndex, currentText, index)

\* The user's actions and the engine's events other than recognition
\* results, errors and unexpected ends.
Control ==
    \/ ToggleReadingStart
    \/ ToggleReadingStop
    \/ StartListeningResume
    \/ OnStart
    \/ OnEndAfterStop
    \/ GoToPreviousPage
    \/ GoToNextPage

\* A reading session with an engine that ends only when it is stopped and
\* delivers the results of RecognitionEvents.
Next ==
    \/ Control
    \/ \E ev \in RecognitionEvents : OnResult(ev)
    \/ \E kind \in {"not-allowed", "no-speech"} : OnError(kind)

Spec == Init /\ [][Next]_vars

\* A reading session with an engine that also ends on its own, and
\* delivers one-word results.
EngineEvents == [1..1 -> [isFinal : BOOLEAN, transcript : {Zip}, confidence : {90}]]

NextEngine ==
    \/ Control
    \/ \E ev \in EngineEvents : OnResult(ev)
    \/ \E kind \in ErrorKinds : OnError(kind)
    \/ OnEndUnexpected

SpecEngine == Init /\ [][NextEngine]_vars

\* A reading session on any one page of the book, with an engine that
\* delivers interim results with a capital letter or with an empty
\* transcript, several final results, and an event that carries a final and
\* an interim result.
InterimResult(text) == [isFinal |-> FALSE, transcript |-> text, confidence |-> 90]
FinalResult(text) == [isFinal |-> TRUE, transcript |-> text, confidence |-> 90]

StreamEvents ==
    { <<InterimResult(Zip)>>,
      <<InterimResult(JoinWithSpace(<<And, <<"Z", "a", "p">> >>))>>,
      <<InterimResult(<<>>)>>,
      <<FinalResult(JoinWithSpace(<<Zip, And>>))>>,
      <<FinalResult(Zap \o <<" ">>)>>,
      <<FinalResult(<<" ">> \o Zap), InterimResult(Zip)>> }

\* The reader has turned to page p before reading.
InitStream ==
    /\ \E p \in 0..(Len(Book) - 1) :
          /\ transcript = <<>> /\ interimTranscript = <<>> /\ lastWordDetected = <<>>
          /\ confidence = 0 /\ isListening = FALSE /\ error = NoError
          /\ engineAvailable = TRUE
          /\ micPermission = "granted" /\ permissionStatus = "granted"
          /\ recognition = "none" /\ restartCount = 0
          /\ handlerIsListening = FALSE /\ onstartPending = FALSE
          /\ startListeningPc = "idle" /\ startIsListening = FALSE
          /\ currentWordIndex = -1 /\ currentText = <<>> /\ confidenceLevel = 0
          /\ currentPageIndex = p /\ isReading = FALSE
          /\ bookPageWordIndex = -1
          /\ consecutiveEnds = 0 /\ restartCalls = 0 /\ stopRequested = FALSE
          /\ finalsHeard = <<>> /\ submittedWord = Null
    /\ pc = "session" /\ argWords = <<>> /\ argText = <<>> /\ argOther = <<>>
    /\ result = <<>>

NextStream ==
    \/ ToggleReadingStart
    \/ ToggleReadingStop
    \/ StartListeningResume
    \/ OnStart
    \/ OnEndAfterStop
    \/ \E ev \in StreamEvents : OnResult(ev)

SpecStream == InitStream /\ [][NextStream]_vars

\* A reading session on the first page with an engine that reports every
\* kind of error, ends on its own and delivers one-word results.
InitErrors ==
    /\ Mounted(TRUE, "granted")
    /\ pc = "session" /\ argWords = <<>> /\ argText = <<>> /\ argOther = <<>>
    /\ result = <<>>

NextErrors ==
    \/ ToggleReadingStart
    \/ ToggleReadingStop
    \/ StartListeningResume
    \/ OnStart
    \/ OnEndAfterStop
    \/ OnEndUnexpected
    \/ \E ev \in EngineEvents : OnResult(ev)
    \/ \E kind \in ErrorKinds : OnError(kind)

SpecErrors == InitErrors /\ [][NextErrors]_vars

(***************************************************************************)
(* The library functions called on their own, on every input of a bounded  *)
(* set.                                                                    *)
(***************************************************************************)

\* ---- bounds ----
\* longest text handed to normalizeText
MaxTextLen == 5
\* longest string handed to stringSimilarity
MaxSimLen == 3
\* longest reference list handed to findBestMatch
MaxWords == 2

\* All strings over the characters of chars, of length at most n.
RECURSIVE StringsUpTo(_, _)
StringsUpTo(chars, n) ==
    IF n = 0 THEN {<<>>}
    ELSE LET shorter == StringsUpTo(chars, n - 1)
         IN shorter \cup {Append(s, c) : s \in shorter, c \in chars}

\* Texts for normalizeText: a lower-case and an upper-case letter, a
\* punctuation character, a space and a tab.
NormalizeInputs == StringsUpTo({"a", "B", ".", " ", "tab"}, MaxTextLen)

SimilarityInputs == StringsUpTo({"a", "b", "c"}, MaxSimLen)

\* Words for findBestMatch: equal, contained, close (one substitution in
\* four letters), distant, differing by case and punctuation only, made of
\* punctuation only, and blank.
MatchVocabulary ==
    { <<"p", "a", "s", "t">>, <<"p", "a", "s", "s">>, <<"p", "a", "s">>,
      <<"P", "a", "s", "t", ".">>, Zip, <<".">>, <<" ">> }

ReferenceLists == UNION { [1..n -> MatchVocabulary] : n \in 0..MaxWords }

CallInit(name) ==
    /\ Mounted(TRUE, "granted")
    /\ pc = name
    /\ result = <<>>

InitNormalize ==
    /\ CallInit("normalizeText")
    /\ argText \in NormalizeInputs
    /\ argOther = <<>> /\ argWords = <<>>

\* result = normalizeText(argText)
CallNormalizeText ==
    /\ pc = "normalizeText"
    /\ result' = normalizeText(argText)
    /\ pc' = "normalizeText returned"
    /\ UNCHANGED <<sessionVars, argWords, argText, argOther>>

\* argOther = normalizeText(result), the function applied to its own result
CallNormalizeTextAgain ==
    /\ pc = "normalizeText returned"
    /\ argOther' = normalizeText(result)
    /\ pc' = "normalizeText returned twice"
    /\ UNCHANGED <<sessionVars, argWords, argText, result>>

NextNormalize == CallNormalizeText \/ CallNormalizeTextAgain

SpecNormalize == InitNormalize /\ [][NextNormalize]_vars

InitSimilarity ==
    /\ CallInit("stringSimilarity")
    /\ argText \in SimilarityInputs
    /\ argOther \in SimilarityInputs
    /\ argWords = <<>>

\* result = stringSimilarity(argText, argOther)
CallStringSimilarity ==
    /\ pc = "stringSimilarity"
    /\ result' = stringSimilarity(argText, argOther)
    /\ pc' = "stringSimilarity returned"
    /\ UNCHANGED <<sessionVars, argWords, argText, argOther>>

NextSimilarity == CallStringSimilarity

SpecSimilarity == InitSimilarity /\ [][NextSimilarity]_vars

InitMatch ==
    /\ CallInit("findBestMatch")
    /\ argWords \in ReferenceLists
    /\ argText \in MatchVocabulary \cup {<<>>}
    /\ argOther = <<>>

\* result = findBestMatch(argWords, argText)
CallFindBestMatch ==
    /\ pc = "findBestMatch"
    /\ result' = findBestMatch(argWords, argText)
    /\ pc' = "findBestMatch returned"
    /\ UNCHANGED <<sessionVars, argWords, argText, argOther>>

NextMatch == CallFindBestMatch

SpecMatch == InitMatch /\ [][NextMatch]_vars

\* most words of a text handed to compareTexts
MaxCompareWords == 2

\* Words for compareTexts: a reference word, a word one substitution away
\* in four letters (similarity 3/4), and three five- and six-letter words at
\* similarities 4/5 and 5/6 of each other.
CompareVocabulary ==
    { <<"p", "a", "s", "t">>, <<"p", "a", "s", "s">>,
      <<"p", "a", "s", "t", "a">>, <<"p", "a", "s", "t", "e">>,
      <<"p", "a", "s", "t", "a", "s">> }

\* The page "Zip and Zap are space pirates." and its reading.
PirateWords ==
    << <<"Z", "i", "p">>, And, <<"Z", "a", "p">>, <<"a", "r", "e">>,
       <<"s", "p", "a", "c", "e">>, <<"p", "i", "r", "a", "t", "e", "s", ".">> >>

PirateTranscript ==
    JoinWithSpace(<< Zip, And, Zap, <<"a", "r", "e">>, <<"s", "p", "a", "c", "e">>,
                     <<"p", "i", "r", "a", "t", "e", "s">> >>)

\* Texts for compareTexts: up to MaxCompareWords words joined by single
\* spaces, a blank text, a text with surrounding and doubled whitespace, and
\* the pirate page.
CompareTextInputs ==
    { JoinWithSpace(ws) :
        ws \in UNION { [1..n -> CompareVocabulary] : n \in 0..MaxCompareWords } }
    \cup { <<" ">>,
           <<" ", "P", "a", "s", "t", ".", " ", "tab", "p", "a", "s", "s", " ">> }

InitCompare ==
    /\ CallInit("compareTexts")
    /\ argText \in CompareTextInputs \cup {JoinWithSpace(PirateWords)}
    /\ argOther \in CompareTextInputs \cup {PirateTranscript}
    /\ argWords = <<>>

\* result = compareTexts(argText, argOther)
CallCompareTexts ==
    /\ pc = "compareTexts"
    /\ result' = compareTexts(argText, argOther)
    /\ pc' = "compareTexts returned"
    /\ UNCHANGED <<sessionVars, argWords, argText, argOther>>

NextCompare == CallCompareTexts

SpecCompare == InitCompare /\ [][NextCompare]_vars

\* Values handed in place of a text: null, undefined, an object, the empty
\* string, a blank string and a word.
MalformedTexts == {Null, Undefined, AnObject, <<>>, <<" ">>, <<"p", "a", "s", "t">>}

\* Values handed in place of the array of words: null, undefined, an
\* object, the empty array, arrays holding a non-string, and an array of
\* words.
MalformedWordLists ==
    { NullWords, UndefinedWords, ObjectWords, <<>>,
      <<Null>>, <<AnObject, <<"p", "a", "s", "t">> >>,
      << <<"p", "a", "s", "t">>, <<"z", "i", "p">> >> }

InitTotal ==
    /\ CallInit("malformed call")
    /\ argWords \in MalformedWordLists
    /\ argText \in MalformedTexts
    /\ argOther \in MalformedTexts

\* result = what each of the four functions answers to the same arguments
CallWithMalformedInput ==
    /\ pc = "malformed call"
    /\ result' = [ normalizeText |-> normalizeText(argText),
                   findBestMatch |-> findBestMatch(argWords, argText),
                   highlightWord |-> highlightWord(argWords, argText),
                   compareTexts |-> compareTexts(argText, argOther) ]
    /\ pc' = "malformed call returned"
    /\ UNCHANGED <<sessionVars, argWords, argText, argOther>>

NextTotal == CallWithMalformedInput

SpecTotal == InitTotal /\ [][NextTotal]_vars

\* Words for calls with variants: past in two spellings that differ in
\* letter case and punctuation, pass one substitution away, pas contained
\* in both, and two words made of punctuation only.
VariantVocabulary ==
    { <<"p", "a", "s", "t">>, <<"P", "a", "s", "t", ".">>,
      <<"p", "a", "s", "s">>, <<"p", "a", "s">>, <<".">>, <<"!">> }

\* most reference words of a call with variants
MaxVariantWords == 2

VariantLists == UNION { [1..n -> VariantVocabulary] : n \in 0..MaxVariantWords }

\* a and b differ only in letter case or in characters that line 10 strips
IsVariant(a, b) == StripPunctuation(toLowerCase(a)) = StripPunctuation(toLowerCase(b))

\* the first and the second spoken word of a call with variants
FirstSpokenWords == { <<"p", "a", "s", "t">>, <<"p", "a", "s", "s">>, <<"p", "a", "s">> }
SecondSpokenWords == { <<"P", "a", "s", "t", ".">>, <<".">> }

InitVariant ==
    /\ CallInit("call with variants")
    /\ argWords \in VariantLists
    /\ argText \in FirstSpokenWords
    /\ argOther \in SecondSpokenWords

\* findBestMatch(argWords, argText) and compareTexts of the reference words
\* against the spoken words argText and argOther, each called a second time
\* with every word replaced by one of its variants.
CallWithVariants ==
    /\ pc = "call with variants"
    /\ \E words \in VariantLists, text \in VariantVocabulary, other \in VariantVocabulary :
          /\ Len(words) = Len(argWords)
          /\ \A i \in 1..Len(words) : IsVariant(words[i], argWords[i])
          /\ IsVariant(text, argText)
          /\ IsVariant(other, argOther)
          /\ result' =
                [ words |-> words, text |-> text, other |-> other,
                  findBestMatch |-> findBestMatch(argWords, argText),
                  findBestMatchOfVariants |-> findBestMatch(words, text),
                  compareTexts |->
                      compareTexts(JoinWithSpace(argWords),
                                   JoinWithSpace(<<argText, argOther>>)),
                  compareTextsOfVariants |->
                      compareTexts(JoinWithSpace(words),
                                   JoinWithSpace(<<text, other>>)) ]
    /\ pc' = "call with variants returned"
    /\ UNCHANGED <<sessionVars, argWords, argText, argOther>>

NextVariant == CallWithVariants

SpecVariant == InitVariant /\ [][NextVariant]_vars

(***************************************************************************)
(* Properties                                                              *)
(***************************************************************************)

\* C1: in every reachable state of a reading session the highlighted word
\* index of ReadAlong is -1 or a position of the current page's reference
\* sequence (its pageWords).
C1_HighlightIndexInRange ==
    \/ currentWordIndex = -1
    \/ /\ 0 <= currentWordIndex
       /\ currentWordIndex < Len(BookPageWordsLower[currentPageIndex + 1])

\* C2: within one listening session a recognition event never moves the
\* highlighted index from a position to an earlier one.
C2_HighlightNeverDecreases ==
    [][ ( /\ isListening /\ ~stopRequested /\ recognition = "active"
          /\ currentWordIndex # -1
          /\ \E ev \in RecognitionEvents : OnResult(ev) )
        => currentWordIndex' >= currentWordIndex ]_vars

\* C3: after 3 consecutive unexpected engine terminations the hook is
\* stopped with the engine-instability error set, and the end handler never
\* restarts the engine a 4th time in a session.
C3_ThreeEndsStop ==
    /\ consecutiveEnds >= maxRestartAttempts
        => /\ ~isListening
           /\ error = "Speech recognition stopped unexpectedly. Please try again."
    /\ restartCalls <= maxRestartAttempts

\* C4: a recognition event that the stopped engine delivers after
\* stopListening and before the next startListening leaves transcript,
\* interimTranscript, lastWordDetected, confidence and the highlighted
\* index unchanged.
C4_LateEventDiscarded ==
    [][ ( /\ stopRequested /\ recognition = "stopping"
          /\ \E ev \in RecognitionEvents : OnResult(ev) )
        => UNCHANGED <<transcript, interimTranscript, lastWordDetected,
                       confidence, currentWordIndex>> ]_vars

\* The recognition event with the single result (final, text).
DeliversOne(final, text) ==
    \E ev \in RecognitionEvents :
        /\ Len(ev) = 1 /\ ev[1].isFinal = final /\ ev[1].transcript = text
        /\ OnResult(ev)

\* A listening session on the page Zip and Zap. in which exactly these
\* interim events were delivered so far, and no final event.
StreamedSoFar(interim, lastWord, index) ==
    /\ isListening /\ ~stopRequested /\ recognition = "active"
    /\ currentPageIndex = 0
    /\ transcript = <<>>
    /\ interimTranscript = interim
    /\ lastWordDetected = lastWord
    /\ currentWordIndex = index

\* C5: in a fresh session on the page Zip and Zap., interim "zip" sets the
\* highlighted index to 0, then interim "zip and" sets it to 1, then final
\* "zip and zap " sets it to 2, leaves the transcript "zip and zap" and
\* clears the interim fragment.
C5_StreamingHighlight ==
    [][ /\ ( StreamedSoFar(<<>>, <<>>, -1) /\ DeliversOne(FALSE, Zip) )
            => currentWordIndex' = 0
        /\ ( StreamedSoFar(Zip, Zip, 0)
             /\ DeliversOne(FALSE, JoinWithSpace(<<Zip, And>>)) )
            => currentWordIndex' = 1
        /\ ( StreamedSoFar(JoinWithSpace(<<Zip, And>>), And, 1)
             /\ DeliversOne(TRUE, JoinWithSpace(<<Zip, And, Zap>>) \o <<" ">>) )
            => /\ currentWordIndex' = 2
               /\ transcript' = JoinWithSpace(<<Zip, And, Zap>>)
               /\ interimTranscript' = <<>> ]_vars

\* The smallest element of a non-empty set of numbers.
Least(S) == CHOOSE x \in S : \A y \in S : x <= y

\* Positions (0-based) of the reference words of the call that equal the
\* spoken word after normalization.
ExactHits ==
    {i - 1 : i \in {j \in 1..Len(argWords) :
                        normalizeText(argWords[j]) = normalizeText(argText)}}

\* Positions (0-based) of the reference words that contain the spoken word
\* or are contained in it, after normalization.
SubstringHits ==
    {i - 1 : i \in {j \in 1..Len(argWords) :
                        \/ Includes(normalizeText(argWords[j]), normalizeText(argText))
                        \/ Includes(normalizeText(argText), normalizeText(argWords[j]))}}

SimilarityAt(i) == stringSimilarity(normalizeText(argWords[i + 1]), normalizeText(argText))

\* Positions (0-based) whose similarity to the spoken word exceeds the
\* threshold and is not exceeded at any other position.
FuzzyHits ==
    {i \in 0..(Len(argWords) - 1) :
        /\ SimGreater(SimilarityAt(i), FuzzyThreshold)
        /\ \A k \in 0..(Len(argWords) - 1) : ~SimGreater(SimilarityAt(k), SimilarityAt(i))}

\* C6: findBestMatch returns the first exact hit if there is one, else the
\* first substring hit if there is one, else the fuzzy best match, else -1.
C6_StrictPriority ==
    (pc = "findBestMatch returned" /\ normalizeText(argText) # <<>>)
    => result = IF ExactHits # {} THEN Least(ExactHits)
                ELSE IF SubstringHits # {} THEN Least(SubstringHits)
                ELSE IF FuzzyHits # {} THEN Least(FuzzyHits)
                ELSE -1

\* C7, as claimed: for every non-empty string w, findBestMatch([w], w) = 0.
C7_SelfMatchAnyNonEmpty ==
    (pc = "findBestMatch returned" /\ argText # <<>> /\ argWords = <<argText>>)
    => result = 0

\* C7, amended: findBestMatch([w], w) = 0 for every w whose normalized
\* form is non-empty, and -1 for a non-empty w that normalizes to the empty
\* string.
C7_SelfMatchNormalizedNonEmpty ==
    (pc = "findBestMatch returned" /\ argText # <<>> /\ argWords = <<argText>>)
    => result = IF normalizeText(argText) # <<>> THEN 0 ELSE -1

C7_Witness ==
    /\ pc = "findBestMatch returned"
    /\ argText = <<"P", "a", "s", "t", ".">>
    /\ argWords = <<argText>>
    /\ result = 0

\* C8: findBestMatch returns -1 whenever the reference list is empty and
\* whenever the spoken word is the empty string.
C8_EmptyInputsNoMatch ==
    (pc = "findBestMatch returned" /\ (argWords = <<>> \/ argText = <<>>))
    => result = -1

C8_Witness ==
    /\ pc = "findBestMatch returned"
    /\ argText = <<>>
    /\ argWords = << <<"p", "a", "s", "t">>, <<"p", "a", "s">> >>
    /\ result = -1

\* C9: normalizeText is idempotent: normalizing a normalized text returns
\* it unchanged.
C9_NormalizeIdempotent ==
    pc = "normalizeText returned twice" => argOther = result

C9_Witness ==
    /\ pc = "normalizeText returned twice"
    /\ argText = <<" ", "B", ".", "tab", "a">>
    /\ result = <<"b", " ", "a">>
    /\ argOther = result

\* The Levenshtein distance by its defining recurrence: insertion, deletion
\* and substitution cost 1 each.
RECURSIVE EditDistance(_, _)
EditDistance(a, b) ==
    IF a = <<>> THEN Len(b)
    ELSE IF b = <<>> THEN Len(a)
    ELSE Min(Min(EditDistance(Tail(a), b) + 1, EditDistance(a, Tail(b)) + 1),
             EditDistance(Tail(a), Tail(b)) + (IF Head(a) = Head(b) THEN 0 ELSE 1))

\* C10: stringSimilarity(a, b) = 1 - editDistance(a, b) / max(len a, len b),
\* 1 when both are empty and 0 when exactly one is; so it lies in [0, 1]
\* and is 1 for two equal non-empty strings.
C10_SimilarityIsEditRatio ==
    pc = "stringSimilarity returned" =>
        LET a == argText
            b == argOther
            maxLen == Max(Len(a), Len(b))
        IN /\ result.den > 0
           /\ 0 <= result.num /\ result.num <= result.den
           /\ (a = <<>> /\ b = <<>>) => result.num = result.den
           /\ ((a = <<>>) # (b = <<>>)) => result.num = 0
           /\ (a # <<>> /\ b # <<>>)
                => result.num * maxLen = (maxLen - EditDistance(a, b)) * result.den
           /\ (a = b /\ a # <<>>) => result.num = result.den

C10_Witness ==
    /\ pc = "stringSimilarity returned"
    /\ argText = <<"a", "b">>
    /\ argOther = <<"b", "a", "c">>
    /\ result = [num |-> 1, den |-> 3]

\* C11: stringSimilarity is symmetric: the call with the arguments swapped
\* returns the same value.
C11_SimilaritySymmetric ==
    pc = "stringSimilarity returned" => result = stringSimilarity(argOther, argText)

C11_Witness ==
    /\ pc = "stringSimilarity returned"
    /\ argText = <<"a", "b">>
    /\ argOther = <<"a", "b", "c">>
    /\ result = [num |-> 2, den |-> 3]

\* The reference words and the spoken words of the call of compareTexts.
ReferenceWords == NonEmptyOnly(SplitWhitespace(argText))
SpokenWordsOfCall == NonEmptyOnly(SplitWhitespace(argOther))

\* The similarity of the one reference word and the one spoken word of the
\* call lies strictly between 0.7 and 0.8.
BetweenThresholds ==
    /\ Len(ReferenceWords) = 1 /\ Len(SpokenWordsOfCall) = 1
    /\ LET sim == stringSimilarity(normalizeText(ReferenceWords[1]),
                                   normalizeText(SpokenWordsOfCall[1]))
       IN /\ SimGreater(sim, [num |-> 7, den |-> 10])
          /\ SimGreater([num |-> 8, den |-> 10], sim)

\* C12: for a reference word and a spoken word whose similarity lies
\* strictly between 0.7 and 0.8, findBestMatch accepts the word (returns 0)
\* and compareTexts marks it matched = false.
C12_CallSitesDisagree ==
    (pc = "compareTexts returned" /\ BetweenThresholds)
    => /\ findBestMatch(<<ReferenceWords[1]>>, SpokenWordsOfCall[1]) = 0
       /\ Len(result) = 1
       /\ result[1].matched = FALSE

C12_Witness ==
    /\ pc = "compareTexts returned"
    /\ argText = <<"p", "a", "s", "t">>
    /\ argOther = <<"p", "a", "s", "s">>
    /\ result[1].matched = FALSE
    /\ result[1].similarityScore = [num |-> 3, den |-> 4]
    /\ findBestMatch(<<argText>>, argOther) = 0

\* Every reference word of the call equals, after normalization, some
\* normalized spoken word.
AllReferenceWordsSpoken ==
    /\ ReferenceWords # <<>>
    /\ \A i \in 1..Len(ReferenceWords) :
          \E k \in 1..Len(SpokenWordsOfCall) :
              normalizeText(ReferenceWords[i]) = normalizeText(SpokenWordsOfCall[k])

\* Every reference word of the call has its entry in the result, marked
\* matched with similarityScore 1.
AllMarkedMatched ==
    /\ Len(result) = Len(ReferenceWords)
    /\ \A i \in 1..Len(result) :
          /\ result[i].word = ReferenceWords[i]
          /\ result[i].matched = TRUE
          /\ result[i].similarityScore = [num |-> 1, den |-> 1]

SimEqual(a, b) == a.num * b.den = b.num * a.den

\* The similarities of the reference word to every spoken word of the call,
\* and 0, the score of a word compared with nothing.
SimilaritiesToSpoken(word) ==
    { stringSimilarity(normalizeText(word), normalizeText(SpokenWordsOfCall[k])) :
        k \in 1..Len(SpokenWordsOfCall) } \cup { [num |-> 0, den |-> 1] }

\* The maximum of them.
BestSimilarityToSpoken(word) ==
    CHOOSE best \in SimilaritiesToSpoken(word) :
        \A other \in SimilaritiesToSpoken(word) : ~SimGreater(other, best)

\* C14: for each reference word without an exact normalized match in the
\* transcript, similarityScore is the maximum similarity over all spoken
\* words, and matched says whether that maximum reaches 0.8.
C14_BestOverAllSpoken ==
    pc = "compareTexts returned" =>
        \A i \in 1..Len(result) :
            ~ExactMatch(normalizeText(ReferenceWords[i]), SpokenWordsOfCall)
            => /\ SimEqual(result[i].similarityScore,
                           BestSimilarityToSpoken(ReferenceWords[i]))
               /\ result[i].matched
                    = SimAtLeast(BestSimilarityToSpoken(ReferenceWords[i]),
                                 [num |-> 8, den |-> 10])

\* C15: a successful "start reading", from not listening to listening,
\* leaves the accumulated transcript, the interim fragment and the
\* last-detected word empty, the confidence 0 and the highlighted index -1.
\* (Idle or Stopped: not listening, and no engine of an earlier session
\* still running.)
C15_StartResetsAlignment ==
    [][ ( /\ ~isListening /\ recognition \in {"none", "ended"}
          /\ StartListeningResume /\ isListening' )
        => /\ transcript' = <<>>
           /\ interimTranscript' = <<>>
           /\ lastWordDetected' = <<>>
           /\ confidence' = 0
           /\ currentWordIndex' = -1 ]_vars

\* C16: after "stop reading", with the effects its state changes trigger,
\* the interim fragment is empty, the highlighted index is -1 and the
\* accumulated transcript is what it was.
C16_StopClearsHighlight ==
    [][ ToggleReadingStop
        => /\ interimTranscript' = <<>>
           /\ currentWordIndex' = -1
           /\ transcript' = transcript ]_vars

\* The hook is listening to a running engine.
Listening == isListening /\ recognition = "active"

\* The text of a recognition event, trimmed.
EventText(ev) == Trim(JoinWithSpace([i \in 1..Len(ev) |-> ev[i].transcript]))

IsInterimEvent(ev) == \A i \in 1..Len(ev) : ~ev[i].isFinal
IsFinalEvent(ev) == \A i \in 1..Len(ev) : ev[i].isFinal

\* The last whitespace-delimited token of a text, <<>> if it has none.
LastToken(text) ==
    LET tokens == NonEmptyOnly(SplitWhitespace(text))
    IN IF tokens = <<>> THEN <<>> ELSE tokens[Len(tokens)]

\* C17, as claimed: on every interim event while listening the interim
\* fragment becomes the event's trimmed text, the last-detected word becomes
\* the last whitespace-delimited token of that text, and the accumulated
\* transcript is unchanged.
C17_InterimReplacesFragment ==
    [][ \A ev \in StreamEvents :
          (Listening /\ IsInterimEvent(ev) /\ OnResult(ev))
          => /\ interimTranscript' = EventText(ev)
             /\ lastWordDetected' = LastToken(EventText(ev))
             /\ transcript' = transcript ]_vars

\* C17, amended: the last-detected word becomes the last token in lower
\* case, and keeps its value when the text has no token.
C17_InterimReplacesFragmentLowerCase ==
    [][ \A ev \in StreamEvents :
          (Listening /\ IsInterimEvent(ev) /\ OnResult(ev))
          => /\ interimTranscript' = EventText(ev)
             /\ lastWordDetected' =
                    IF LastToken(EventText(ev)) # <<>>
                    THEN toLowerCase(LastToken(EventText(ev)))
                    ELSE lastWordDetected
             /\ transcript' = transcript ]_vars

C17_Witness ==
    /\ Listening
    /\ interimTranscript = <<"a", "n", "d", " ", "Z", "a", "p">>
    /\ lastWordDetected = Zap
    /\ transcript = JoinWithSpace(<<Zip, And>>)

\* C18: on every final event while listening the accumulated transcript
\* becomes the previous one, a single space and the event's trimmed text
\* (the trimmed text alone when it was empty), so that it is the
\* single-spaced concatenation of the final texts of the session in their
\* order, and the interim fragment is empty afterwards.
C18_FinalAppends ==
    [][ \A ev \in StreamEvents :
          (Listening /\ IsFinalEvent(ev) /\ OnResult(ev))
          => /\ transcript' = IF transcript = <<>> THEN EventText(ev)
                              ELSE transcript \o <<" ">> \o EventText(ev)
             /\ transcript' = JoinWithSpace(finalsHeard')
             /\ interimTranscript' = <<>> ]_vars

C18_Witness ==
    /\ Listening
    /\ finalsHeard = << Zap, JoinWithSpace(<<Zip, And>>) >>
    /\ transcript = JoinWithSpace(<<Zap, Zip, And>>)
    /\ interimTranscript = <<>>

\* The word the fallback chain of the claim chooses in the current state:
\* the last-detected word, else the last word of the interim fragment, else
\* the last word of the accumulated transcript; Null when all are empty.
ChainWord ==
    IF lastWordDetected # <<>> THEN lastWordDetected
    ELSE IF interimTranscript # <<>> THEN toLowerCase(LastToken(interimTranscript))
    ELSE IF transcript # <<>> THEN toLowerCase(LastToken(transcript))
    ELSE Null

\* C19, as claimed: the word handed to the matcher is the one the fallback
\* chain chooses, and one is handed over whenever any of the three sources
\* is non-empty.
C19_FallbackChain ==
    pc = "session" => submittedWord = ChainWord

\* C19, amended: that holds on a page that has reference words; on a page
\* without words nothing is handed to the matcher.
C19_FallbackChainOnPageWithWords ==
    pc = "session" =>
        submittedWord = IF Len(BookPageWordsLower[currentPageIndex + 1]) > 0
                        THEN ChainWord ELSE Null

C19_Witness ==
    /\ pc = "session"
    /\ transcript = JoinWithSpace(<<Zip, And>>)
    /\ interimTranscript = <<>>
    /\ lastWordDetected = <<>>
    /\ submittedWord = And
    /\ currentWordIndex = 1

\* C20: an engine error no-speech, aborted or network leaves isListening,
\* the transcript, the interim fragment and the highlighted index as they
\* were; not-allowed and service-not-allowed stop the listening.
C20_TransientErrorsKeepState ==
    [][ \A kind \in ErrorKinds :
          OnError(kind)
          => /\ kind \in {"no-speech", "aborted", "network"}
                  => UNCHANGED <<isListening, transcript, interimTranscript,
                                 currentWordIndex>>
             /\ (kind \in {"not-allowed", "service-not-allowed"} /\ isListening)
                  => ~isListening' ]_vars

C20_Witness ==
    /\ error = "network"
    /\ Listening
    /\ interimTranscript = Zip
    /\ currentWordIndex = 0

\* C21: when no speech engine is available, or the microphone permission
\* is denied or not granted after the prompt, startListening creates and
\* starts no engine and does not set isListening, the hook reports the
\* condition (isSpeechRecognitionSupported false or permissionStatus
\* 'unsupported', respectively permissionStatus 'denied'), and the error is
\* not null afterwards.
C21_BlockedStartReported ==
    [][ /\ (ToggleReadingStart /\ ~engineAvailable)
            => /\ UNCHANGED <<recognition, isListening>>
               /\ startListeningPc' = "idle"
               /\ error' # NoError
               /\ (~isSpeechRecognitionSupported \/ permissionStatus' = "unsupported")
        /\ (StartListeningResume /\ micPermission' # "granted")
            => /\ UNCHANGED <<recognition, isListening>>
               /\ error' # NoError
               /\ permissionStatus' = "denied" ]_vars

\* C22: the matching and scoring functions answer every input, and answer
\* a malformed one by their sentinel: normalizeText returns "" for a null,
\* undefined or empty text; findBestMatch and highlightWord return -1 for a
\* null, undefined, non-array or empty list and for a null, undefined or
\* empty word; compareTexts returns the empty array when either text is
\* null, undefined or empty. For any other input each returns a value of
\* its own kind: a string, an index or -1, an array of at most one entry
\* per reference word.
C22_TotalWithSentinels ==
    pc = "malformed call returned"
    => LET NoText(t) == t \in {Null, Undefined, <<>>}
           NoList == argWords \in {NullWords, UndefinedWords, ObjectWords, <<>>}
       IN /\ NoText(argText) => result.normalizeText = <<>>
          /\ result.normalizeText \notin {Null, Undefined, AnObject}
          /\ (NoList \/ NoText(argText))
                => result.findBestMatch = -1 /\ result.highlightWord = -1
          /\ result.findBestMatch \in -1..(Len(argWords) - 1)
          /\ result.highlightWord \in -1..(Len(argWords) - 1)
          /\ (NoText(argText) \/ NoText(argOther))
                => Len(result.compareTexts) = 0
          /\ Len(result.compareTexts) <= Len(argText)

C22_Witness ==
    /\ pc = "malformed call returned"
    /\ argWords = ObjectWords
    /\ argText = <<"p", "a", "s", "t">>
    /\ argOther = Undefined
    /\ result.normalizeText = argText
    /\ result.findBestMatch = -1
    /\ result.highlightWord = -1
    /\ Len(result.compareTexts) = 0

C24_AcceptedAboveThreshold ==
    pc = "compareTexts returned"
    => \A i \in 1..Len(result) :
          result[i].matched
          => SimGreater(result[i].similarityScore, [num |-> 8, den |-> 10])

\* C25: after stopListening, called by the user or by the handler of a
\* not-allowed or service-not-allowed error, and until startListening is
\* called again, the engine-end handler never calls start(): the engine is
\* not running after the handler.
C25_NoRestartAfterStop ==
    [][(OnEndHandler /\ stopRequested) => recognition' # "active"]_vars

\* C26: when stopListening is called while startListening is suspended at
\* its permission check or request, the resumed startListening neither
\* starts the engine nor sets isListening: after the last stop the hook is
\* not listening.
C26_StopCancelsPendingStart ==
    [][(StartListeningResume /\ stopRequested)
         => (recognition' # "active" /\ ~isListening')]_vars

\* C27: the retry budget counts consecutive unexpected terminations only.
\* When an engine termination forces the hook from Listening to Stopped, in
\* a handler that sees the hook listening, it is the third or a later one
\* of a row of unexpected terminations with no recognition event delivered
\* in between: terminations separated by delivered events do not add up.
C27_BudgetCountsConsecutiveEnds ==
    [][(OnEndUnexpected /\ handlerIsListening /\ isListening /\ ~isListening')
         => consecutiveEnds' >= 3]_vars

\* C28: an engine that keeps terminating unexpectedly brings the hook to
\* Stopped with an error set. In steps: whenever the end handler answers an
\* unexpected termination without restarting the engine, it leaves
\* isListening false and an error message set.
C28_GivesUpWithError ==
    [][(OnEndUnexpected /\ recognition' = "ended")
         => (~isListening' /\ error' # NoError)]_vars

\* The tests of findBestMatch between a reference word and the spoken word:
\* equal, one containing the other, or similarity above 0.7.
SatisfiesMatch(target, word) ==
    LET normalizedTarget == normalizeText(target)
        normalizedWord == normalizeText(word)
    IN \/ normalizedTarget = normalizedWord
       \/ Includes(normalizedTarget, normalizedWord)
       \/ Includes(normalizedWord, normalizedTarget)
       \/ SimGreater(stringSimilarity(normalizedTarget, normalizedWord),
                     [num |-> 7, den |-> 10])

\* C29: whenever findBestMatch(words, w) returns i >= 0, i is a position of
\* the caller's list and words[i] is the entry that satisfied the match
\* against w: an entry the function compared (a string that is not blank)
\* and that is equal to w, contains it or is contained in it, or is similar
\* to it, also when blank entries precede it in the list.
C29_IndexIntoCallerList ==
    (pc = "findBestMatch returned" /\ result >= 0)
    => /\ result < Len(argWords)
       /\ argWords[result + 1] \notin {Null, Undefined, AnObject}
       /\ Len(Trim(argWords[result + 1])) > 0
       /\ SatisfiesMatch(argWords[result + 1], argText)

\* C30: a reference word whose normalized form is empty (it is made of
\* stripped punctuation only) is never returned by findBestMatch as the
\* match for a spoken word whose normalized form is not empty. Stated on
\* lists without blank entries, where the returned index is a position of
\* the caller's list.
C30_EmptyNormalizedNeverMatches ==
    ( /\ pc = "findBestMatch returned"
      /\ result >= 0
      /\ \A i \in 1..Len(argWords) : Len(Trim(argWords[i])) > 0 )
    => Len(StripPunctuation(argWords[result + 1])) > 0

====
